---- MODULE Spec2Model ----
(***************************************************************************)
(* pkcs11.util.ec: conversion of EC public keys and ECDSA signatures       *)
(* between DER and the PKCS #11 attribute / r||s forms.                    *)
(*                                                                         *)
(* Byte strings are sequences of integers 0..255.  The functions of the    *)
(* module are pure; the state is the input of a session and the calls made *)
(* on it so far, each call applied to the input or to the value returned   *)
(* by the call before it.                                                  *)
(*                                                                         *)
(* The ASN.1 library calls (asn1crypto's PublicKeyInfo / OctetString /     *)
(* ECDomainParameters, and the DER encoder / decoder of ECDSA_Sig_Value    *)
(* used by the signature functions) are modelled on the bytes, by the DER  *)
(* rules they implement.  The names ECDSA_Sig_Value, encoder and decoder   *)
(* are used by the signature functions without an import in ec.py; they    *)
(* are taken as the pyasn1 DER codec of SEQUENCE { r INTEGER, s INTEGER }. *)
(***************************************************************************)
EXTENDS Integers, Sequences, FiniteSets, TLC

VARIABLES input, hist

vars == <<input, hist>>

---------------------------------------------------------------------------
(* Bounds of the model *)

\* calls made in one session
MaxCalls == 3
\* length of a raw r||s signature given as input
MaxSigLen == 5
\* content octets of one INTEGER of a DER signature given as input
MaxIntLen == 2

\* the byte values inputs are drawn from: both sides of the sign bit
Bytes == {0, 1, 127, 128, 255}

\* lengths of the EC points of the public keys given as input: compressed and
\* uncompressed P-256, P-384, P-521, and the lengths around the short/long
\* form boundary of a DER length (127/128) and the one/two octet boundary (255/256)
PointLens == {1, 33, 65, 97, 126, 127, 128, 133, 254, 255, 256}

---------------------------------------------------------------------------
(* DER primitives of the ASN.1 libraries *)

TagInteger == 2
TagBitString == 3
TagOctetString == 4
TagNull == 5
TagOid == 6
TagSequence == 48

\* definite length octets: short form below 128, else 0x81 n or 0x82 hi lo
DerLength(n) ==
    IF n < 128 THEN <<n>>
    ELSE IF n < 256 THEN <<129, n>>
    ELSE <<130, n \div 256, n % 256>>

\* tag, length, value
Tlv(tag, content) == <<tag>> \o DerLength(Len(content)) \o content

Drop(b, n) == SubSeq(b, n + 1, Len(b))

Take(b, n) == SubSeq(b, 1, n)

NoTlv == [ok |-> FALSE, tag |-> 0, header |-> <<>>, content |-> <<>>, rest |-> <<>>]

\* read one tag-length-value from the front of b
ParseTlv(b) ==
    IF Len(b) < 2 THEN NoTlv
    ELSE LET l1 == b[2]
             nlen == IF l1 < 128 THEN 0 ELSE l1 - 128
         IN IF nlen > 2 \/ l1 = 128 \/ Len(b) < 2 + nlen THEN NoTlv
            ELSE LET n == IF nlen = 0 THEN l1
                          ELSE IF nlen = 1 THEN b[3]
                          ELSE b[3] * 256 + b[4]
                     h == 2 + nlen
                 IN IF Len(b) < h + n THEN NoTlv
                    ELSE [ok |-> TRUE, tag |-> b[1], header |-> Take(b, h),
                          content |-> SubSeq(b, h + 1, h + n),
                          rest |-> Drop(b, h + n)]

\* the whole encoding of the value parsed: header and content
TlvBytes(t) == t.header \o t.content

---------------------------------------------------------------------------
(* Values returned by the functions *)

\* the attribute map when none is returned
NoKey == [KEY_TYPE |-> "", CLASS |-> "", EC_PARAMS |-> <<>>, EC_POINT |-> <<>>]

\* a return of bytes, a return of an attribute map, a raised exception
RetBytes(b) == [err |-> "none", bytes |-> b, key |-> NoKey]

RetKey(k) == [err |-> "none", bytes |-> <<>>, key |-> k]

Raise(e) == [err |-> e, bytes |-> <<>>, key |-> NoKey]

---------------------------------------------------------------------------
(* Public keys: asn1crypto PublicKeyInfo, OctetString, ECDomainParameters *)

\* content octets of the algorithm identifiers
\* 1.2.840.10045.2.1 (ec), 1.2.840.113549.1.1.1 (rsa), 1.2.840.10040.4.1 (dsa)
OidEc == <<42, 134, 72, 206, 61, 2, 1>>
OidRsa == <<42, 134, 72, 134, 247, 13, 1, 1, 1>>
OidDsa == <<42, 134, 72, 206, 56, 4, 1>>

\* PublicKeyInfo.algorithm: the name the algorithm identifier maps to
AlgorithmName(oid) ==
    IF oid = OidEc THEN "ec"
    ELSE IF oid = OidRsa THEN "rsa"
    ELSE IF oid = OidDsa THEN "dsa"
    ELSE "unknown"

NoPublicKeyInfo == [ok |-> FALSE, algorithm |-> "", parameters |-> <<>>, public_key |-> <<>>]

\* PublicKeyInfo.load(der): SEQUENCE { SEQUENCE { OID, parameters }, BIT STRING };
\* parameters are kept as their encoding, public_key as the content of the
\* BIT STRING (its first octet counts the unused bits)
PublicKeyInfo_load(der) ==
    LET spki == ParseTlv(der) IN
    IF ~spki.ok \/ spki.tag # TagSequence THEN NoPublicKeyInfo
    ELSE LET alg == ParseTlv(spki.content) IN
    IF ~alg.ok \/ alg.tag # TagSequence THEN NoPublicKeyInfo
    ELSE LET oid == ParseTlv(alg.content)
             pk == ParseTlv(alg.rest) IN
    IF ~oid.ok \/ oid.tag # TagOid THEN NoPublicKeyInfo
    ELSE LET params == ParseTlv(oid.rest) IN
    IF ~params.ok \/ params.rest # <<>> THEN NoPublicKeyInfo
    ELSE IF ~pk.ok \/ pk.tag # TagBitString \/ pk.content = <<>> \/ pk.rest # <<>>
         THEN NoPublicKeyInfo
    ELSE [ok |-> TRUE, algorithm |-> AlgorithmName(oid.content),
          parameters |-> TlvBytes(params), public_key |-> pk.content]

\* bytes(asn1['public_key']): the bits of the BIT STRING, without the octet
\* that counts the unused bits
BitStringBytes(content) == Tail(content)

\* OctetString(b).dump()
OctetString_dump(b) == Tlv(TagOctetString, b)

\* OctetString.load(b): the parsed value, ok only for an OCTET STRING
OctetString_load(b) ==
    LET t == ParseTlv(b) IN
    IF t.ok /\ t.tag = TagOctetString THEN t ELSE NoTlv

\* ECDomainParameters.load(b): a CHOICE of specified (SEQUENCE), named (OID)
\* and implicit_ca (NULL); the value keeps the encoding it was loaded from
ECDomainParameters_load(b) ==
    LET t == ParseTlv(b) IN
    IF t.ok /\ t.tag \in {TagSequence, TagOid, TagNull} THEN t ELSE NoTlv

\* PublicKeyInfo({...}).dump() for an algorithm identifier, its parameters
\* (their encoding) and the key bytes, carried as a BIT STRING with no unused bits
PublicKeyInfo_dump(oid, parameters, public_key) ==
    Tlv(TagSequence,
        Tlv(TagSequence, Tlv(TagOid, oid) \o parameters)
        \o Tlv(TagBitString, <<0>> \o public_key))

\* variant: decode_ec_public_key without the assertion on the algorithm
decode_ec_public_key_no_assert(der, encode_ec_point) ==
    LET asn1 == PublicKeyInfo_load(der) IN
    IF ~asn1.ok THEN Raise("ValueError")
    ELSE LET raw == BitStringBytes(asn1.public_key)
             ecpoint == IF encode_ec_point THEN OctetString_dump(raw) ELSE raw
         IN RetKey([KEY_TYPE |-> "EC", CLASS |-> "PUBLIC_KEY",
                    EC_PARAMS |-> asn1.parameters, EC_POINT |-> ecpoint])

\* variant: decode_ec_public_key that wraps the point whatever encode_ec_point is
decode_ec_public_key_always_wrapped(der, encode_ec_point) ==
    LET asn1 == PublicKeyInfo_load(der) IN
    IF ~asn1.ok THEN Raise("ValueError")
    ELSE IF asn1.algorithm # "ec" THEN Raise("AssertionError")
    ELSE RetKey([KEY_TYPE |-> "EC", CLASS |-> "PUBLIC_KEY",
                 EC_PARAMS |-> asn1.parameters,
                 EC_POINT |-> OctetString_dump(BitStringBytes(asn1.public_key))])

\* decode_ec_public_key(der, encode_ec_point=True)
decode_ec_public_key(der, encode_ec_point) ==
    LET asn1 == PublicKeyInfo_load(der) IN
    IF ~asn1.ok THEN Raise("ValueError")
    ELSE IF asn1.algorithm # "ec" THEN Raise("AssertionError")
    ELSE LET raw == BitStringBytes(asn1.public_key)
             ecpoint == IF encode_ec_point THEN OctetString_dump(raw) ELSE raw
         IN RetKey([KEY_TYPE |-> "EC", CLASS |-> "PUBLIC_KEY",
                    EC_PARAMS |-> asn1.parameters, EC_POINT |-> ecpoint])

\* variant: encode_ec_public_key that does not unwrap EC_POINT
encode_ec_public_key_point_as_given(key) ==
    LET ecparams == ECDomainParameters_load(key.EC_PARAMS) IN
    IF ~ecparams.ok THEN Raise("ValueError")
    ELSE RetBytes(PublicKeyInfo_dump(OidEc, TlvBytes(ecparams), key.EC_POINT))

\* encode_ec_public_key(key)
encode_ec_public_key(key) ==
    LET ecparams == ECDomainParameters_load(key.EC_PARAMS)
        ecpoint == OctetString_load(key.EC_POINT) IN
    IF ~ecparams.ok \/ ~ecpoint.ok THEN Raise("ValueError")
    ELSE RetBytes(PublicKeyInfo_dump(OidEc, TlvBytes(ecparams), ecpoint.content))

---------------------------------------------------------------------------
(* Signatures: integers and the DER codec of ECDSA_Sig_Value *)

RECURSIVE from_bytes(_)
\* int.from_bytes(b, byteorder='big'): unsigned, 0 for no bytes
from_bytes(b) ==
    IF b = <<>> THEN 0
    ELSE from_bytes(Take(b, Len(b) - 1)) * 256 + b[Len(b)]

RECURSIVE bit_length(_)
\* int.bit_length(): bits of the magnitude, 0 for 0
bit_length(n) ==
    IF n = 0 THEN 0
    ELSE IF n < 0 THEN bit_length(-n)
    ELSE 1 + bit_length(n \div 2)

RECURSIVE BigEndian(_, _)
\* the low `length` octets of a non-negative n, most significant first
BigEndian(n, length) ==
    IF length = 0 THEN <<>>
    ELSE Append(BigEndian(n \div 256, length - 1), n % 256)

\* variant: to_bytes with signed=True, which takes a negative n
to_bytes_raises_signed(n, length) == bit_length(n) > 8 * length

\* who n.to_bytes(length, byteorder='big') raises for: a negative n (the
\* conversion is unsigned) and an n that does not fit
to_bytes_raises(n, length) == n < 0 \/ bit_length(n) > 8 * length

\* n.to_bytes(length, byteorder='big') where it does not raise
to_bytes(n, length) == BigEndian(n, length)

\* the content octets of a DER INTEGER holding n >= 0: the fewest octets, at
\* least one, with a leading zero octet when the top bit would be set
IntegerContent(n) ==
    LET k == (bit_length(n) + 7) \div 8
        m == BigEndian(n, IF k = 0 THEN 1 ELSE k)
    IN IF m[1] >= 128 THEN <<0>> \o m ELSE m

RECURSIVE SignedValue(_)
\* the value of the content octets of an INTEGER: two's complement, big-endian
SignedValue(c) ==
    IF Len(c) = 1 THEN (IF c[1] >= 128 THEN c[1] - 256 ELSE c[1])
    ELSE SignedValue(Take(c, Len(c) - 1)) * 256 + c[Len(c)]

\* encoder.encode(asn1) of an ECDSA_Sig_Value with r, s >= 0
ECDSA_Sig_Value_encode(r, s) ==
    Tlv(TagSequence,
        Tlv(TagInteger, IntegerContent(r)) \o Tlv(TagInteger, IntegerContent(s)))

NoSig == [ok |-> FALSE, r |-> 0, s |-> 0]

\* decoder.decode(der, asn1Spec=ECDSA_Sig_Value()): SEQUENCE { r INTEGER, s INTEGER }
ECDSA_Sig_Value_decode(der) ==
    LET seq == ParseTlv(der) IN
    IF ~seq.ok \/ seq.tag # TagSequence THEN NoSig
    ELSE LET r == ParseTlv(seq.content) IN
    IF ~r.ok \/ r.tag # TagInteger \/ r.content = <<>> THEN NoSig
    ELSE LET s == ParseTlv(r.rest) IN
    IF ~s.ok \/ s.tag # TagInteger \/ s.content = <<>> \/ s.rest # <<>> THEN NoSig
    ELSE [ok |-> TRUE, r |-> SignedValue(r.content), s |-> SignedValue(s.content)]

\* variant: encode_ecdsa_signature that splits at ceil(len / 2)
encode_ecdsa_signature_split_up(signature) ==
    LET part == (Len(signature) + 1) \div 2
        r == Take(signature, part)
        s == Drop(signature, part)
    IN RetBytes(ECDSA_Sig_Value_encode(from_bytes(r), from_bytes(s)))

\* variant: encode_ecdsa_signature that reads r and s with byteorder='little'
encode_ecdsa_signature_little_endian(signature) ==
    LET part == Len(signature) \div 2
        r == Take(signature, part)
        s == Drop(signature, part)
        Reversed(b) == [i \in 1..Len(b) |-> b[Len(b) + 1 - i]]
    IN RetBytes(ECDSA_Sig_Value_encode(from_bytes(Reversed(r)), from_bytes(Reversed(s))))

\* encode_ecdsa_signature(signature)
encode_ecdsa_signature(signature) ==
    LET part == Len(signature) \div 2
        r == Take(signature, part)
        s == Drop(signature, part)
    IN RetBytes(ECDSA_Sig_Value_encode(from_bytes(r), from_bytes(s)))

Max(a, b) == IF a >= b THEN a ELSE b

\* variant: decode_ecdsa_signature that gives each of r and s its own length
decode_ecdsa_signature_each_minimal(der) ==
    LET asn1 == ECDSA_Sig_Value_decode(der) IN
    IF ~asn1.ok THEN Raise("PyAsn1Error")
    ELSE LET r == asn1.r
             s == asn1.s
             lr == (bit_length(r) + 7) \div 8
             ls == (bit_length(s) + 7) \div 8
         IN IF to_bytes_raises(r, lr) \/ to_bytes_raises(s, ls)
            THEN Raise("OverflowError")
            ELSE RetBytes(to_bytes(r, lr) \o to_bytes(s, ls))

\* variant: decode_ecdsa_signature that takes the length of r for both, cutting a longer s
decode_ecdsa_signature_length_of_r(der) ==
    LET asn1 == ECDSA_Sig_Value_decode(der) IN
    IF ~asn1.ok THEN Raise("PyAsn1Error")
    ELSE LET r == asn1.r
             s == asn1.s
             length == (bit_length(r) + 7) \div 8
         IN IF r < 0 \/ s < 0
            THEN Raise("OverflowError")
            ELSE RetBytes(to_bytes(r, length) \o to_bytes(s, length))

\* variant: decode_ecdsa_signature with length = bits // 8 + 1 for the ceiling
decode_ecdsa_signature_floor_plus_one(der) ==
    LET asn1 == ECDSA_Sig_Value_decode(der) IN
    IF ~asn1.ok THEN Raise("PyAsn1Error")
    ELSE LET r == asn1.r
             s == asn1.s
             length == Max(bit_length(r), bit_length(s)) \div 8 + 1
         IN IF to_bytes_raises(r, length) \/ to_bytes_raises(s, length)
            THEN Raise("OverflowError")
            ELSE RetBytes(to_bytes(r, length) \o to_bytes(s, length))

\* decode_ecdsa_signature(der)
decode_ecdsa_signature(der) ==
    LET asn1 == ECDSA_Sig_Value_decode(der) IN
    IF ~asn1.ok THEN Raise("PyAsn1Error")
    ELSE LET r == asn1.r
             s == asn1.s
             \* r and s must be the same length
             length == (Max(bit_length(r), bit_length(s)) + 7) \div 8
         IN IF to_bytes_raises(r, length) \/ to_bytes_raises(s, length)
            THEN Raise("OverflowError")
            ELSE RetBytes(to_bytes(r, length) \o to_bytes(s, length))

---------------------------------------------------------------------------
(* Inputs *)

\* content octets of the named curves prime256v1 (1.2.840.10045.3.1.7),
\* secp384r1 (1.3.132.0.34) and secp521r1 (1.3.132.0.35), and of the
\* algorithm identifier of Ed25519 (1.3.101.112), which has no name here
OidPrime256v1 == <<42, 134, 72, 206, 61, 3, 1, 7>>
OidSecp384r1 == <<43, 129, 4, 0, 34>>
OidSecp521r1 == <<43, 129, 4, 0, 35>>
OidEd25519 == <<43, 101, 112>>

\* encodings of EC domain parameters: named curves and implicit_ca
DomainParameters ==
    {Tlv(TagOid, c) : c \in {OidPrime256v1, OidSecp384r1, OidSecp521r1}}
    \cup {Tlv(TagNull, <<>>)}

\* a point of n octets: the SEC1 form octet, then octets that differ by position
Point(n, form) == [i \in 1..n |-> IF i = 1 THEN form ELSE (37 * i + form) % 256]

Points == {Point(n, form) : n \in PointLens, form \in {3, 4}}

\* the DER encoding of a SubjectPublicKeyInfo
SubjectPublicKeyInfo(oid, parameters, public_key) ==
    Tlv(TagSequence,
        Tlv(TagSequence, Tlv(TagOid, oid) \o parameters)
        \o Tlv(TagBitString, <<0>> \o public_key))

EcPublicKeys ==
    {SubjectPublicKeyInfo(OidEc, p, q) : p \in DomainParameters, q \in Points}

OtherPublicKeys ==
    {SubjectPublicKeyInfo(oid, p, q) :
        oid \in {OidRsa, OidDsa, OidEd25519},
        p \in {Tlv(TagNull, <<>>), Tlv(TagOid, OidPrime256v1)},
        q \in Points}

SeqsUpTo(n) == UNION {[1..k -> Bytes] : k \in 0..n}

\* raw signatures r||s, of even and of odd length
\* with r = 00 FF, s = AA BB, whose r has a leading zero octet and whose s has none
RawSignatures == SeqsUpTo(MaxSigLen) \cup {<<0, 255, 170, 187>>}

\* content octets of a DER INTEGER: at least one, and no more than needed
IsMinimal(c) ==
    /\ c # <<>>
    /\ Len(c) > 1 => /\ ~(c[1] = 0 /\ c[2] < 128)
                     /\ ~(c[1] = 255 /\ c[2] >= 128)

IntegerContents == {c \in SeqsUpTo(MaxIntLen) : IsMinimal(c)}

\* DER encodings of ECDSA-Sig-Value, of negative integers too
DerSignatures ==
    {Tlv(TagSequence, Tlv(TagInteger, rc) \o Tlv(TagInteger, sc)) :
        rc \in IntegerContents, sc \in IntegerContents}

Inputs ==
    [kind : {"public_key"}, bytes : EcPublicKeys \cup OtherPublicKeys]
    \cup [kind : {"signature"}, bytes : RawSignatures]
    \cup [kind : {"der_signature"}, bytes : DerSignatures]

---------------------------------------------------------------------------
(* The calls of a session *)

Call(fn, arg, arg_key, flag, ret) ==
    [fn |-> fn, arg |-> arg, arg_key |-> arg_key, flag |-> flag, ret |-> ret]

Last == hist[Len(hist)]

Returned(c) == c.ret.err = "none"

Init ==
    /\ input \in Inputs
    /\ hist = <<>>

\* decode_ec_public_key on the key given as input, with either flag
CallDecodeEcPublicKey ==
    /\ Len(hist) < MaxCalls
    /\ input.kind = "public_key"
    /\ \E encode_ec_point \in BOOLEAN :
          hist' = Append(hist,
                    Call("decode_ec_public_key", input.bytes, NoKey, encode_ec_point,
                         decode_ec_public_key(input.bytes, encode_ec_point)))
    /\ UNCHANGED input

\* encode_ec_public_key on the attribute map the last call returned
CallEncodeEcPublicKey ==
    /\ Len(hist) < MaxCalls
    /\ hist # <<>>
    /\ Last.fn = "decode_ec_public_key"
    /\ Returned(Last)
    /\ hist' = Append(hist,
                 Call("encode_ec_public_key", <<>>, Last.ret.key, FALSE,
                      encode_ec_public_key(Last.ret.key)))
    /\ UNCHANGED input

\* the signatures encode_ecdsa_signature is called on: the one given as input,
\* then the ones decode_ecdsa_signature returns
EncodeArgs ==
    IF hist = <<>>
    THEN IF input.kind = "signature" THEN {input.bytes} ELSE {}
    ELSE IF Last.fn = "decode_ecdsa_signature" /\ Returned(Last)
         THEN {Last.ret.bytes} ELSE {}

CallEncodeEcdsaSignature ==
    /\ Len(hist) < MaxCalls
    /\ \E signature \in EncodeArgs :
          hist' = Append(hist,
                    Call("encode_ecdsa_signature", signature, NoKey, FALSE,
                         encode_ecdsa_signature(signature)))
    /\ UNCHANGED input

\* the encodings decode_ecdsa_signature is called on: the one given as input,
\* then the ones encode_ecdsa_signature returns
DecodeArgs ==
    IF hist = <<>>
    THEN IF input.kind = "der_signature" THEN {input.bytes} ELSE {}
    ELSE IF Last.fn = "encode_ecdsa_signature" /\ Returned(Last)
         THEN {Last.ret.bytes} ELSE {}

CallDecodeEcdsaSignature ==
    /\ Len(hist) < MaxCalls
    /\ \E der \in DecodeArgs :
          hist' = Append(hist,
                    Call("decode_ecdsa_signature", der, NoKey, FALSE,
                         decode_ecdsa_signature(der)))
    /\ UNCHANGED input

Next ==
    \/ CallDecodeEcPublicKey
    \/ CallEncodeEcPublicKey
    \/ CallEncodeEcdsaSignature
    \/ CallDecodeEcdsaSignature

Spec == Init /\ [][Next]_vars

---------------------------------------------------------------------------
(* What the claims speak of *)

Calls == 1..Len(hist)

\* pairs of one call and the call made on what it returned
Chained == {i \in Calls : i + 1 \in Calls}

RECURSIVE ValueFrom(_, _)
\* the unsigned big-endian value of octets, read from the first one on
ValueFrom(acc, b) ==
    IF b = <<>> THEN acc ELSE ValueFrom(acc * 256 + Head(b), Tail(b))

Value(b) == ValueFrom(0, b)

RECURSIVE MinBytes(_)
\* ceil(bitlength(v) / 8): the octets a value v >= 0 needs, none for 0
MinBytes(v) == IF v = 0 THEN 0 ELSE 1 + MinBytes(v \div 256)

\* the two halves of a raw signature of even length
HalfR(x) == Take(x, Len(x) \div 2)

HalfS(x) == Drop(x, Len(x) \div 2)

IsEven(n) == n % 2 = 0

\* h is the header of a DER OCTET STRING of n content octets
IsOctetStringHeader(h, n) ==
    /\ Len(h) >= 2
    /\ h[1] = 4
    /\ \/ Len(h) = 2 /\ n < 128 /\ h[2] = n
       \/ Len(h) = 3 /\ n >= 128 /\ n < 256 /\ h[2] = 129 /\ h[3] = n
       \/ Len(h) = 4 /\ n >= 256 /\ h[2] = 130 /\ h[3] * 256 + h[4] = n

\* the integers of a DER signature
SigOf(der) == ECDSA_Sig_Value_decode(der)

NonNegative(der) == SigOf(der).ok /\ SigOf(der).r >= 0 /\ SigOf(der).s >= 0

---------------------------------------------------------------------------
(* C1 *)

\* C1: decoding a valid EC public key K with encode_ec_point=True and encoding
\* the attribute map returned gives back K, byte for byte.
C1_PublicKeyRoundTrip ==
    \A i \in Chained :
        ( /\ hist[i].fn = "decode_ec_public_key"
          /\ hist[i].flag
          /\ hist[i].arg \in EcPublicKeys
          /\ hist[i + 1].fn = "encode_ec_public_key" )
        => /\ Returned(hist[i])
           /\ hist[i + 1].arg_key = hist[i].ret.key
           /\ Returned(hist[i + 1])
           /\ hist[i + 1].ret.bytes = hist[i].arg

\* a P-521 key, whose lengths take the long form, has made the round trip
C1_Witness ==
    \E i \in Chained :
        /\ hist[i].fn = "decode_ec_public_key"
        /\ hist[i].flag
        /\ hist[i].arg \in EcPublicKeys
        /\ Len(hist[i].arg) > 128
        /\ hist[i + 1].fn = "encode_ec_public_key"
        /\ hist[i + 1].ret.bytes = hist[i].arg

---------------------------------------------------------------------------
(* C2 *)

---------------------------------------------------------------------------
(* C3 *)

\* C3: for every DER signature of non-negative (r, s), r = 0 and s = 0 too,
\* each half decode_ecdsa_signature returns has at least one octet, so what
\* it returns is never empty.
C3_ZeroClamp ==
    \A i \in Calls :
        (hist[i].fn = "decode_ecdsa_signature" /\ NonNegative(hist[i].arg))
        => /\ Returned(hist[i])
           /\ Len(hist[i].ret.bytes) >= 2

---------------------------------------------------------------------------
(* C4 *)

---------------------------------------------------------------------------
(* C5 *)

---------------------------------------------------------------------------
(* C6 *)

\* C6: decode_ec_public_key of one valid EC key with encode_ec_point=True and
\* with encode_ec_point=False returns maps equal in KEY_TYPE, CLASS and
\* EC_PARAMS; the EC_POINT of the first is the header of a DER OCTET STRING
\* (tag and length) followed by the EC_POINT of the second.
C6_PointWrappingToggle ==
    \A i \in Calls : \A j \in Calls :
        ( /\ hist[i].fn = "decode_ec_public_key" /\ hist[i].flag
          /\ hist[j].fn = "decode_ec_public_key" /\ ~hist[j].flag
          /\ hist[i].arg = hist[j].arg
          /\ hist[i].arg \in EcPublicKeys )
        => LET w == hist[i].ret.key
               u == hist[j].ret.key
               h == Len(w.EC_POINT) - Len(u.EC_POINT)
           IN /\ Returned(hist[i]) /\ Returned(hist[j])
              /\ w.KEY_TYPE = "EC" /\ u.KEY_TYPE = "EC"
              /\ w.CLASS = "PUBLIC_KEY" /\ u.CLASS = "PUBLIC_KEY"
              /\ w.EC_PARAMS = u.EC_PARAMS
              /\ h >= 2
              /\ IsOctetStringHeader(Take(w.EC_POINT, h), Len(u.EC_POINT))
              /\ Drop(w.EC_POINT, h) = u.EC_POINT

\* one key of a point of 128 octets or more was decoded both ways
C6_Witness ==
    \E i \in Calls : \E j \in Calls :
        /\ hist[i].fn = "decode_ec_public_key" /\ hist[i].flag
        /\ hist[j].fn = "decode_ec_public_key" /\ ~hist[j].flag
        /\ hist[i].arg \in EcPublicKeys
        /\ Len(hist[j].ret.key.EC_POINT) >= 128
        /\ Len(hist[i].ret.key.EC_POINT) = Len(hist[j].ret.key.EC_POINT) + 3

---------------------------------------------------------------------------
(* C7 *)

\* C7: decode_ec_public_key of a well-formed SubjectPublicKeyInfo whose
\* algorithm is not EC raises, whatever encode_ec_point is, and returns no
\* attribute map.
C7_AlgorithmMismatch ==
    \A i \in Calls :
        (hist[i].fn = "decode_ec_public_key" /\ hist[i].arg \in OtherPublicKeys)
        => /\ ~Returned(hist[i])
           /\ hist[i].ret.key = NoKey

\* an RSA key was given with encode_ec_point=False and with True, and the
\* assertion failed both times
C7_Witness ==
    \E i \in Calls : \E j \in Calls :
        /\ hist[i].fn = "decode_ec_public_key" /\ hist[i].flag
        /\ hist[j].fn = "decode_ec_public_key" /\ ~hist[j].flag
        /\ hist[i].arg \in OtherPublicKeys
        /\ hist[i].ret.err = "AssertionError"
        /\ hist[j].ret.err = "AssertionError"

---------------------------------------------------------------------------
(* C8 *)

\* the first content octet of r and of s in a DER signature whose lengths
\* take one octet each
FirstOctetOfR(der) == der[5]

FirstOctetOfS(der) == der[5 + der[4] + 2]

\* C8: decode_ecdsa_signature of a DER signature whose r or s is a negative
\* INTEGER (the top bit of its first content octet is set) raises and returns
\* no bytes.
C8_NegativeRejected ==
    ( /\ input.kind = "der_signature"
      /\ hist # <<>>
      /\ FirstOctetOfR(input.bytes) >= 128 \/ FirstOctetOfS(input.bytes) >= 128 )
    => /\ hist[1].fn = "decode_ecdsa_signature"
       /\ hist[1].arg = input.bytes
       /\ ~Returned(hist[1])
       /\ hist[1].ret.bytes = <<>>

\* a signature of r = 1 and s = -1 was given, and refused
C8_Witness ==
    /\ input.kind = "der_signature"
    /\ hist # <<>>
    /\ hist[1].fn = "decode_ecdsa_signature"
    /\ SigOf(hist[1].arg).r = 1
    /\ SigOf(hist[1].arg).s = -1
    /\ hist[1].ret.err = "OverflowError"

---------------------------------------------------------------------------
(* C9 *)

---------------------------------------------------------------------------
(* C10 *)

====
